---- MODULE Spec2Model ----
(***************************************************************************)
(* Model of the auto-batching proxy core (src/src/batcher.rs):             *)
(*   - BatchSender::request   callers enqueue a BatchItem and await its    *)
(*                            oneshot outcome slot                         *)
(*   - Batcher::receive_batch the accumulator: first recv, fast drain,     *)
(*                            size check, deadline check, timed wait       *)
(*   - Batcher::run           hands every batch to send_batch              *)
(*   - Batcher::send_batch    one spawned task per batch: permit, one      *)
(*                            downstream call, fan-out of the result       *)
(*                                                                         *)
(* Time is a discrete clock `now`.  The code reads the clock only inside   *)
(* receive_batch, between the first item of a batch and its hand-off, and  *)
(* the accumulator's computation between two suspension points takes no    *)
(* time: the clock advances only while the accumulator is suspended in its *)
(* timed wait, and never past the expiry of that wait.  Callers and        *)
(* dispatch tasks run on other threads: their steps interleave with the    *)
(* accumulator's at every one of its queue operations and between its      *)
(* decision to return a batch and the spawn of that batch's dispatch task. *)
(***************************************************************************)
EXTENDS Integers, Sequences, FiniteSets, TLC

\* ---------------------------------------------------------------- bounds
\* number of callers (requests) of one run
MaxItems == 2

\* ------------------------------------------------------- configurations
\* AppConfig values the batcher is built with (main.rs: parsed from the
\* environment as unsigned integers; mpsc::channel panics on capacity 0)
BatchSizes == {0, 1, 2, 3}
WaitTimes == {0, 2}
Concurrencies == {0, 1, 2}
QueueCaps == {1, 2}

\* the configurations of a run: the accumulator's two parameters in every
\* combination with one permit and a queue of two, and the permits and the
\* queue capacity in every combination with batches of one
Configs ==
    {[max_batch_size |-> b, max_wait_time |-> w, batch_concurrency |-> 1, queue_cap |-> 2] :
        b \in BatchSizes, w \in WaitTimes}
    \cup {[max_batch_size |-> 1, max_wait_time |-> 2, batch_concurrency |-> c, queue_cap |-> q] :
        c \in Concurrencies, q \in QueueCaps}

Items == 1..MaxItems

\* the payload of caller i's request (opaque to the core; one per caller,
\* so that the order of a downstream request's inputs is observable)
Payload(i) == <<"text", i>>

\* embeddings the downstream service answers with
Emb == {"e1", "e2"}

VARIABLES
    cfg,        \* AppConfig: max_batch_size, max_wait_time, batch_concurrency, queue_cap
    now,        \* the clock (Instant::now())
    queue,      \* buffer of the mpsc submission channel: sequence of items
    tx_open,    \* some mpsc::Sender is alive
    caller,     \* per item: position of its caller in BatchSender::request
    input,      \* per item: BatchItem.input
    slot,       \* per item: value held by the oneshot channel BatchItem.resp
    sent,       \* per item: the values passed to resp.send, in order
    acc_pc,     \* position of the accumulator task (Batcher::run / receive_batch)
    batch,      \* receive_batch: the Vec being filled
    deadline,   \* receive_batch: `deadline`
    wait_until, \* expiry of the pending tokio::time::timeout
    cycle,      \* bookkeeping of the current receive_batch call
    handed,     \* log of the batches receive_batch returned, in order
    dequeued,   \* log of the items the accumulator took from the queue, in order
    tasks,      \* the spawned send_batch tasks; tasks[k] dispatches handed[k]
    permits,    \* available permits of the `inflight` semaphore
    sem_closed  \* the `inflight` semaphore is closed

vars == <<cfg, now, queue, tx_open, caller, input, slot, sent, acc_pc, batch,
          deadline, wait_until, cycle, handed, dequeued, tasks, permits, sem_closed>>

callerVars == <<caller, input>>
accVars == <<acc_pc, batch, deadline, wait_until, cycle, handed, dequeued>>
semVars == <<permits, sem_closed>>

max_batch_size == cfg.max_batch_size
max_wait_time == cfg.max_wait_time
batch_concurrency == cfg.batch_concurrency
queue_cap == cfg.queue_cap

\* ------------------------------------------------------------- outcomes
Empty == [kind |-> "Empty"]
OkEmb(e) == [kind |-> "Ok", emb |-> e]
ServiceShutdown == [kind |-> "ServiceShutdown"]
CountMismatch(exp, got) == [kind |-> "CountMismatch", expected |-> exp, got |-> got]
Upstream(code, body) == [kind |-> "Upstream", code |-> code, body |-> body]
Request(msg) == [kind |-> "Request", msg |-> msg]

\* what the downstream call of a batch of n items can come back with:
\* a success with n embeddings, a success with another number of them (the
\* code reads only their number then), a non-success status, a transport
\* (or body decoding) failure
DownstreamResults(n) ==
    {[ok |-> TRUE, embs |-> e, err |-> Empty] :
        e \in [1..n -> Emb] \cup {[k \in 1..m |-> "e1"] : m \in 0..(n + 1)}}
    \cup {[ok |-> FALSE, embs |-> <<>>, err |-> Upstream(503, "busy")],
          [ok |-> FALSE, embs |-> <<>>, err |-> Request("refused")]}

NoResult == [ok |-> FALSE, embs |-> <<>>, err |-> Empty]

\* ------------------------------------------------------------------ Init
Init ==
    /\ cfg \in Configs
    /\ now = 0
    /\ queue = <<>>
    /\ tx_open = TRUE
    /\ caller = [i \in Items |-> "init"]
    /\ input = [i \in Items |-> <<>>]
    /\ slot = [i \in Items |-> Empty]
    /\ sent = [i \in Items |-> <<>>]
    /\ acc_pc = "spawned"
    /\ batch = <<>>
    /\ deadline = 0
    /\ wait_until = 0
    /\ cycle = [startq |-> <<>>, first_at |-> 0, waits |-> 0, why |-> "none"]
    /\ handed = <<>>
    /\ dequeued = <<>>
    /\ tasks = <<>>
    /\ permits = cfg.batch_concurrency
    /\ sem_closed = FALSE


\* ------------------------------------------------ BatchSender::request
\* rx_resp of item i has been dropped (its caller gave up)
ReceiverDropped(i) == caller[i] = "gone"

\* the mpsc::Receiver is gone: run has ended, or the Batcher was dropped
RxDropped == acc_pc \in {"stopped", "aborted"}

\* faulty variants: send never fails; send fails on a full buffer (try_send)
SendFailsNever == FALSE
SendFailsWhenFull == RxDropped \/ Len(queue) >= queue_cap
\* self.tx.send(item).await gives Err only when the receiver is gone
SendFails == RxDropped

\* faulty variant: the channel takes items beyond its capacity
QueueHasRoomAlways == TRUE
\* the bounded channel has a free slot (mpsc::channel(cfg.queue_cap))
QueueHasRoom == Len(queue) < queue_cap

\* self.tx.send(item).await completes: the item enters the channel buffer
Enqueue(i) ==
    /\ QueueHasRoom
    /\ queue' = Append(queue, i)

\* request(input): build the item and send it.  The send fails at once when
\* the receiver is gone (BatcherUnavailable), completes at once when the
\* channel has room, and suspends the caller otherwise.  A caller that is
\* "waiting" awaits rx_resp and returns the slot's outcome as soon as it is
\* written.
RequestCall(i) ==
    /\ tx_open
    /\ caller[i] = "init"
    /\ \A j \in Items : j < i => caller[j] # "init"
    /\ input' = [input EXCEPT ![i] = Payload(i)]
    /\ IF SendFails
         THEN queue' = queue /\ caller' = [caller EXCEPT ![i] = "unavailable"]
       ELSE IF QueueHasRoom
         THEN Enqueue(i) /\ caller' = [caller EXCEPT ![i] = "waiting"]
       ELSE queue' = queue /\ caller' = [caller EXCEPT ![i] = "blocked"]
    /\ UNCHANGED <<cfg, now, tx_open, slot, sent, accVars, tasks, semVars>>

\* a caller suspended in send gets a free slot of the channel
RequestUnblock(i) ==
    /\ caller[i] = "blocked"
    /\ ~SendFails
    /\ Enqueue(i)
    /\ caller' = [caller EXCEPT ![i] = "waiting"]
    /\ UNCHANGED <<cfg, now, tx_open, input, slot, sent, accVars, tasks, semVars>>

\* a caller suspended in send is woken by the receiver going away: its send
\* gives Err and request returns BatcherUnavailable
RequestSendClosed(i) ==
    /\ caller[i] = "blocked"
    /\ SendFails
    /\ caller' = [caller EXCEPT ![i] = "unavailable"]
    /\ UNCHANGED <<cfg, now, queue, tx_open, input, slot, sent, accVars, tasks, semVars>>

\* the future of request is dropped by its caller (a timeout above the
\* core, a disconnected client): a pending send is cancelled with it and
\* its item never enters the queue; after the send, rx_resp is dropped
RequestAbandon(i) ==
    /\ caller[i] \in {"blocked", "waiting"}
    /\ slot[i] = Empty
    /\ caller' = [caller EXCEPT ![i] = IF caller[i] = "blocked" THEN "cancelled" ELSE "gone"]
    /\ UNCHANGED <<cfg, now, queue, tx_open, input, slot, sent, accVars, tasks, semVars>>

\* the Batcher is dropped while senders are alive (the accumulator task is
\* dropped; api.rs' test drops the receiver itself): the queued items and
\* the batch being filled are dropped with it, and the callers awaiting
\* their slots get RecvError, which request returns as ProxyError::Receiver
DropReceiver ==
    /\ ~RxDropped
    /\ tx_open
    /\ LET lost == {queue[k] : k \in 1..Len(queue)} \cup {batch[k] : k \in 1..Len(batch)}
       IN caller' = [i \in Items |-> IF i \in lost /\ caller[i] = "waiting"
                                       THEN "recv_error" ELSE caller[i]]
    /\ acc_pc' = "aborted"
    /\ queue' = <<>>
    /\ batch' = <<>>
    /\ UNCHANGED <<cfg, dequeued, now, tx_open, input, slot, sent, deadline, wait_until, cycle,
                   handed, tasks, semVars>>

\* the last mpsc::Sender is dropped; a pending send borrows the sender, so
\* no caller is suspended in send at that moment
CloseQueue ==
    /\ tx_open
    /\ \A i \in Items : caller[i] # "blocked"
    /\ tx_open' = FALSE
    /\ UNCHANGED <<cfg, now, queue, callerVars, slot, sent, accVars, tasks, semVars>>

\* -------------------------------------------------- Batcher::send_batch
Min(a, b) == IF a < b THEN a ELSE b

\* faulty variant: the items whose caller gave up are left out
ReqInputsLive(b) ==
    LET live == SelectSeq(b, LAMBDA i : ~ReceiverDropped(i))
    IN [k \in 1..Len(live) |-> input[live[k]]]
\* req.inputs: the batch's inputs, in batch order
ReqInputs(b) == [k \in 1..Len(b) |-> input[b[k]]]

\* faulty variant: a permit is granted whether or not one is left
CanAcquireAlways(p) == TRUE
\* the permit is granted when the semaphore has one
CanAcquire(p) == p > 0

\* faulty variants: the length guard is missing; it accepts extra results
LenMatchesAlways(b, embs) == TRUE
LenMatchesAtLeast(b, embs) == Len(embs) >= Len(b)
\* embs.len() == batch.len()
LenMatches(b, embs) == Len(embs) = Len(b)

\* faulty variant: the results are paired with the items in reverse
ZipSendsReversed(b, embs) ==
    [k \in 1..Min(Len(b), Len(embs)) |-> <<b[k], OkEmb(embs[Len(embs) + 1 - k])>>]
\* batch.into_iter().zip(embs): item k is sent Ok(embs[k])
ZipSends(b, embs) ==
    [k \in 1..Min(Len(b), Len(embs)) |-> <<b[k], OkEmb(embs[k])>>]

\* faulty variant: the failure is sent to the items of every batch
ErrSendsToAll(b, e) == [k \in 1..MaxItems |-> <<k, e>>]
\* faulty variant: only the first item is sent the failure
ErrSendsFirstOnly(b, e) == [k \in 1..Min(Len(b), 1) |-> <<b[k], e>>]
\* for item in batch { item.resp.send(Err(e)) }: every item is sent e
ErrSends(b, e) == [k \in 1..Len(b) |-> <<b[k], e>>]

\* the match on the downstream result: the resp.send calls it makes, in order
FanOut(b, r) ==
    IF r.ok /\ LenMatches(b, r.embs) THEN ZipSends(b, r.embs)
    ELSE IF r.ok THEN ErrSends(b, CountMismatch(Len(b), Len(r.embs)))
    ELSE ErrSends(b, r.err)

\* oneshot send: the value reaches the slot unless the receiver is gone
\* (the Err returned then is ignored: `let _ =`)
SlotAfter(i, ss) ==
    IF \E k \in 1..Len(ss) : ss[k][1] = i /\ ~ReceiverDropped(i)
      THEN LET k == CHOOSE k \in 1..Len(ss) :
                       /\ ss[k][1] = i
                       /\ \A m \in 1..Len(ss) : ss[m][1] = i => m <= k
           IN ss[k][2]
      ELSE slot[i]

RECURSIVE SentAfter(_, _)
SentAfter(i, ss) ==
    IF ss = <<>> THEN sent[i]
    ELSE LET rest == SentAfter(i, SubSeq(ss, 1, Len(ss) - 1))
             last == ss[Len(ss)]
         IN IF last[1] = i THEN Append(rest, last[2]) ELSE rest

Deliver(ss) ==
    /\ slot' = [i \in Items |-> SlotAfter(i, ss)]
    /\ sent' = [i \in Items |-> SentAfter(i, ss)]

\* faulty variant: the permit is kept when the call failed
PermitsAfterLeakOnErr(p, r) == IF r.ok THEN p + 1 ELSE p
\* _permit is dropped when the task ends, on every path of the match
PermitsAfter(p, r) == p + 1

\* faulty variant: a closed semaphore still grants its permits
AcquireErrNever == FALSE
\* acquire_owned() gives Err: the semaphore is closed
AcquireErr == sem_closed

\* acquire_owned() succeeds; the task builds the request and sends it
Acquire(k) ==
    /\ tasks[k].pc = "acquire"
    /\ ~AcquireErr
    /\ CanAcquire(permits)
    /\ permits' = permits - 1
    /\ tasks' = [tasks EXCEPT ![k] = [@ EXCEPT !.pc = "sent", !.permit = TRUE,
                                                !.inputs = ReqInputs(handed[k].batch)]]
    /\ UNCHANGED <<cfg, now, queue, tx_open, callerVars, slot, sent, accVars, sem_closed>>

\* acquire_owned() fails: the semaphore is closed
AcquireClosed(k) ==
    /\ tasks[k].pc = "acquire"
    /\ AcquireErr
    /\ Deliver(ErrSends(handed[k].batch, ServiceShutdown))
    /\ tasks' = [tasks EXCEPT ![k] = [@ EXCEPT !.pc = "done", !.path = "shutdown"]]
    /\ UNCHANGED <<cfg, now, queue, tx_open, callerVars, accVars, semVars>>

\* the downstream call returns r: fan-out, then the task ends and the
\* permit goes back
Complete(k, r) ==
    /\ tasks[k].pc = "sent"
    /\ Deliver(FanOut(handed[k].batch, r))
    /\ permits' = PermitsAfter(permits, r)
    /\ tasks' = [tasks EXCEPT ![k] = [@ EXCEPT !.pc = "done", !.permit = FALSE,
                                                !.result = r, !.path = "called"]]
    /\ UNCHANGED <<cfg, now, queue, tx_open, callerVars, accVars, sem_closed>>

\* Semaphore::close on `inflight` (no code of the repository calls it; it is
\* the only way the Err arm of acquire_owned is taken)
CloseInflight ==
    /\ ~sem_closed
    /\ sem_closed' = TRUE
    /\ UNCHANGED <<cfg, now, queue, tx_open, callerVars, slot, sent, accVars, tasks, permits>>

NewTask == [pc |-> "acquire", permit |-> FALSE, inputs |-> <<>>, result |-> NoResult,
            path |-> "none"]


\* ------------------------------------- Batcher::run / receive_batch
\* let deadline = Instant::now() + self.max_wait_time, t being Instant::now()
Deadline(t) == t + max_wait_time

\* faulty variant: every timed wait lasts max_wait_time again
RemainingFullWait(d, n) == max_wait_time
\* let remaining = deadline - now (Instant subtraction saturates at zero)
Remaining(d, n) == IF d > n THEN d - n ELSE 0

\* faulty variant: the batch is flushed instead of waiting
DeadlineReachedAlways(n, d) == TRUE
\* if now >= deadline
DeadlineReached(n, d) == n >= d

\* faulty variant: the fast drain is skipped
HasRoomNever(b) == FALSE
\* faulty variant: the item is put at the front of the batch
PushFront(b, x) == <<x>> \o b
\* batch.push(item)
Push(b, x) == Append(b, x)

\* while batch.len() < self.max_batch_size
HasRoom(b) == Len(b) < max_batch_size

\* if batch.len() == self.max_batch_size
IsFull(b) == Len(b) = max_batch_size

\* receive_batch decides to return Some(b), for the reason why
Decide(b, why) ==
    /\ batch' = b
    /\ cycle' = [cycle EXCEPT !.why = why]
    /\ acc_pc' = "flush"

\* faulty variant: run awaits the permit of the batch before it goes on
SpawnReadyWhenPermit == permits > 0
\* tokio::spawn returns at once: send_batch never suspends run
SpawnReady == TRUE

\* in run, self.send_batch(b) and the next call of receive_batch up to its
\* self.rx.recv().await: the batch is logged, its dispatch task is spawned,
\* the next cycle starts on the queue q
HandOff(b, why, q) ==
    /\ handed' = Append(handed, [batch |-> b, at |-> now, why |-> why, open |-> tx_open,
                                 deadline |-> deadline, first_at |-> cycle.first_at,
                                 startq |-> cycle.startq, waits |-> cycle.waits])
    /\ tasks' = Append(tasks, NewTask)
    /\ batch' = <<>>
    /\ cycle' = [startq |-> q, first_at |-> now, waits |-> 0, why |-> "none"]
    /\ acc_pc' = "recv_first"

\* Some(batch) reaches run, which calls send_batch
Flush ==
    /\ acc_pc = "flush"
    /\ SpawnReady
    /\ HandOff(batch, cycle.why, queue)
    /\ UNCHANGED <<cfg, dequeued, now, queue, tx_open, callerVars, slot, sent, deadline,
                   wait_until, semVars>>

\* the task spawned by run is polled for the first time: receive_batch is
\* called and reaches self.rx.recv().await
RunStart ==
    /\ acc_pc = "spawned"
    /\ acc_pc' = "recv_first"
    /\ cycle' = [startq |-> queue, first_at |-> now, waits |-> 0, why |-> "none"]
    /\ UNCHANGED <<cfg, dequeued, now, queue, tx_open, callerVars, slot, sent, batch, deadline,
                   wait_until, handed, tasks, semVars>>

\* let first = self.rx.recv().await?  gives an item: the batch and its
\* deadline start here
RecvFirst ==
    /\ acc_pc = "recv_first"
    /\ queue # <<>>
    /\ batch' = Push(<<>>, Head(queue))
    /\ dequeued' = Append(dequeued, Head(queue))
    /\ queue' = Tail(queue)
    /\ deadline' = Deadline(now)
    /\ cycle' = [cycle EXCEPT !.first_at = now]
    /\ acc_pc' = "drain"
    /\ UNCHANGED <<cfg, now, tx_open, callerVars, slot, sent, wait_until, handed,
                   tasks, semVars>>

\* self.rx.recv().await? gives None (closed and empty): receive_batch
\* returns None and run ends
RecvFirstNone ==
    /\ acc_pc = "recv_first"
    /\ queue = <<>>
    /\ ~tx_open
    /\ acc_pc' = "stopped"
    /\ UNCHANGED <<cfg, dequeued, now, queue, tx_open, callerVars, slot, sent, batch, deadline,
                   wait_until, cycle, handed, tasks, semVars>>

\* after the fast drain: the size check, the deadline check, and else the
\* timed wait tokio::time::timeout(remaining, self.rx.recv())
AfterDrain ==
    IF IsFull(batch)
      THEN Decide(batch, "full") /\ UNCHANGED wait_until
    ELSE IF DeadlineReached(now, deadline)
      THEN Decide(batch, "deadline") /\ UNCHANGED wait_until
    ELSE /\ wait_until' = now + Remaining(deadline, now)
         /\ cycle' = [cycle EXCEPT !.waits = @ + 1]
         /\ acc_pc' = "wait"
         /\ UNCHANGED batch

\* fast drain, try_recv gives Ok(item)
TryRecvOk ==
    /\ acc_pc = "drain"
    /\ HasRoom(batch)
    /\ queue # <<>>
    /\ batch' = Push(batch, Head(queue))
    /\ dequeued' = Append(dequeued, Head(queue))
    /\ queue' = Tail(queue)
    /\ UNCHANGED <<cfg, now, tx_open, callerVars, slot, sent, acc_pc, deadline,
                   wait_until, cycle, handed, tasks, semVars>>

\* fast drain, try_recv gives Err(Empty): break, then the checks
TryRecvEmpty ==
    /\ acc_pc = "drain"
    /\ HasRoom(batch)
    /\ queue = <<>>
    /\ tx_open
    /\ AfterDrain
    /\ UNCHANGED <<cfg, dequeued, now, queue, tx_open, callerVars, slot, sent, deadline, handed,
                   tasks, semVars>>

\* fast drain, try_recv gives Err(Disconnected): return Some(batch)
TryRecvDisconnected ==
    /\ acc_pc = "drain"
    /\ HasRoom(batch)
    /\ queue = <<>>
    /\ ~tx_open
    /\ Decide(batch, "closed")
    /\ UNCHANGED <<cfg, dequeued, now, queue, tx_open, callerVars, slot, sent, deadline,
                   wait_until, handed, tasks, semVars>>

\* fast drain, the while condition is false: the checks
DrainDone ==
    /\ acc_pc = "drain"
    /\ ~HasRoom(batch)
    /\ AfterDrain
    /\ UNCHANGED <<cfg, dequeued, now, queue, tx_open, callerVars, slot, sent, deadline, handed,
                   tasks, semVars>>

\* the timed wait gives Ok(Some(item)): push, return when full, else loop
\* (timeout polls recv before its timer, so a queued item wins over expiry)
WaitItem ==
    /\ acc_pc = "wait"
    /\ queue # <<>>
    /\ queue' = Tail(queue)
    /\ dequeued' = Append(dequeued, Head(queue))
    /\ LET b == Push(batch, Head(queue))
       IN IF IsFull(b)
            THEN Decide(b, "full")
            ELSE /\ batch' = b
                 /\ acc_pc' = "drain"
                 /\ UNCHANGED cycle
    /\ UNCHANGED <<cfg, now, tx_open, callerVars, slot, sent, deadline, wait_until,
                   handed, tasks, semVars>>

\* the timed wait gives Ok(None): closed; flush what we have
WaitClosed ==
    /\ acc_pc = "wait"
    /\ queue = <<>>
    /\ ~tx_open
    /\ Decide(batch, "closed")
    /\ UNCHANGED <<cfg, dequeued, now, queue, tx_open, callerVars, slot, sent, deadline,
                   wait_until, handed, tasks, semVars>>

\* the timed wait gives Err(Elapsed): deadline reached
WaitTimeout ==
    /\ acc_pc = "wait"
    /\ queue = <<>>
    /\ tx_open
    /\ now >= wait_until
    /\ Decide(batch, "timeout")
    /\ UNCHANGED <<cfg, dequeued, now, queue, tx_open, callerVars, slot, sent, deadline,
                   wait_until, handed, tasks, semVars>>

\* ------------------------------------------------------------- the clock
\* the accumulator is suspended in its timed wait: no item, no closure,
\* no expiry yet
AccSuspended == acc_pc = "wait" /\ queue = <<>> /\ tx_open /\ now < wait_until

Tick ==
    /\ AccSuspended
    /\ now' = now + 1
    /\ UNCHANGED <<cfg, queue, tx_open, callerVars, slot, sent, accVars, tasks, semVars>>

\* ---------------------------------------------------------- specification
Next ==
    \/ \E i \in Items : RequestCall(i)
    \/ \E i \in Items : RequestUnblock(i)
    \/ CloseQueue
    \/ RunStart
    \/ RecvFirst
    \/ RecvFirstNone
    \/ TryRecvOk
    \/ TryRecvEmpty
    \/ TryRecvDisconnected
    \/ DrainDone
    \/ WaitItem
    \/ WaitClosed
    \/ WaitTimeout
    \/ Flush
    \/ \E k \in 1..Len(tasks) : Acquire(k)
    \/ \E k \in 1..Len(tasks) : \E r \in DownstreamResults(Len(handed[k].batch)) : Complete(k, r)
    \/ Tick

Spec == Init /\ [][Next]_vars

\* the steps of the accumulator task
AccNext ==
    \/ RunStart
    \/ RecvFirst
    \/ RecvFirstNone
    \/ TryRecvOk
    \/ TryRecvEmpty
    \/ TryRecvDisconnected
    \/ DrainDone
    \/ WaitItem
    \/ WaitClosed
    \/ WaitTimeout
    \/ Flush

\* fair scheduling: the accumulator task and every dispatch task are polled
\* when they can make a step, timers fire, the semaphore grants its permits
\* in the order of the requests for them, so that no task waits for ever
\* while permits keep coming back, and every downstream call returns
Fairness ==
    /\ WF_vars(AccNext)
    /\ WF_vars(Tick)
    /\ \A k \in 1..MaxItems : SF_vars(k <= Len(tasks) /\ Acquire(k))
    /\ \A k \in 1..MaxItems :
           WF_vars(/\ k <= Len(tasks)
                   /\ \E r \in DownstreamResults(Len(handed[k].batch)) : Complete(k, r))

FairSpec == Spec /\ Fairness

\* the same program with the `inflight` semaphore closed at some point, in
\* the configurations that wait, with batches of one or two
NextClose ==
    \/ Next
    \/ CloseInflight
    \/ \E k \in 1..Len(tasks) : AcquireClosed(k)

ConfigsClose == {c \in Configs : c.max_wait_time = 2 /\ c.max_batch_size \in {1, 2}}
InitClose == Init /\ cfg \in ConfigsClose
SpecClose == InitClose /\ [][NextClose]_vars

\* the same program with callers that may give up waiting, with batches of
\* two, and with a queue of one, where a caller can give up a pending send
NextAbandon ==
    \/ Next
    \/ \E i \in Items : RequestAbandon(i)

ConfigsAbandon ==
    {c \in Configs : \/ c.max_batch_size = 2 /\ c.max_wait_time = 2
                     \/ c.queue_cap = 1 /\ c.batch_concurrency = 1}
InitAbandon == Init /\ cfg \in ConfigsAbandon
SpecAbandon == InitAbandon /\ [][NextAbandon]_vars

\* the same program with a Batcher that may be dropped before its senders
NextDrop ==
    \/ Next
    \/ DropReceiver
    \/ \E i \in Items : RequestSendClosed(i)

SpecDrop == Init /\ [][NextDrop]_vars


\* ------------------------------------------------------------ properties
Tasks == 1..Len(tasks)
BatchOf(k) == handed[k].batch
Positions(k) == 1..Len(BatchOf(k))

\* task k has made its downstream call and got its result
Called(k) == tasks[k].pc = "done" /\ tasks[k].path = "called"

\* the tasks that hold a permit
Holding == {k \in Tasks : tasks[k].permit}

\* item at position p of task k's batch was sent exactly the outcome v, and
\* its slot holds v unless its receiver was dropped
Delivered(k, p, v) ==
    LET i == BatchOf(k)[p]
    IN /\ sent[i] = <<v>>
       /\ slot[i] = IF ReceiverDropped(i) THEN Empty ELSE v

\* C1: positional correlation.  For every batch whose downstream call
\* succeeded with as many results as items, the request carried the items'
\* inputs in batch order and the item at position p was sent, and holds,
\* Ok(result[p]) and nothing else.
C1_Correlation ==
    \A k \in Tasks :
        (Called(k) /\ tasks[k].result.ok
                   /\ Len(tasks[k].result.embs) = Len(BatchOf(k)))
        => /\ tasks[k].inputs = [p \in Positions(k) |-> input[BatchOf(k)[p]]]
           /\ \A p \in Positions(k) : Delivered(k, p, OkEmb(tasks[k].result.embs[p]))

\* a batch of two got two different embeddings back
C1_Witness ==
    \E k \in Tasks :
        /\ Called(k) /\ tasks[k].result.ok
        /\ Len(BatchOf(k)) = 2 /\ Len(tasks[k].result.embs) = 2
        /\ tasks[k].result.embs[1] # tasks[k].result.embs[2]

\* C2: write-once outcome.  No item is ever sent two outcomes; every item of
\* a batch whose dispatch task has ended (permit source closed, success,
\* count mismatch, downstream error) was sent exactly one; and an outcome is
\* only ever sent to an item of an ended dispatch task.
C2_WriteOnce ==
    /\ \A i \in Items : Len(sent[i]) <= 1
    /\ \A k \in Tasks : tasks[k].pc = "done" =>
           \A p \in Positions(k) : Len(sent[BatchOf(k)[p]]) = 1
    /\ \A i \in Items : sent[i] # <<>> =>
           \E k \in Tasks : tasks[k].pc = "done" /\ \E p \in Positions(k) : BatchOf(k)[p] = i

\* one batch ended on the closed permit source, another on a count mismatch
C2_Witness ==
    /\ \E k \in Tasks : tasks[k].pc = "done" /\ tasks[k].path = "shutdown"
    /\ \E k \in Tasks : /\ Called(k) /\ tasks[k].result.ok
                        /\ Len(tasks[k].result.embs) < Len(BatchOf(k))

\* C3: size bound, as claimed: every batch receive_batch returned has at
\* most max_batch_size items, for any configured max_batch_size.
C3_SizeBound ==
    \A k \in 1..Len(handed) : Len(handed[k].batch) <= max_batch_size

\* the size bound for the configurations with max_batch_size >= 1
SizeBoundPositive ==
    max_batch_size >= 1 => C3_SizeBound

\* C4: full flush without waiting, as claimed: a call of receive_batch that
\* starts on a queue of at least max_batch_size items returns exactly the
\* first max_batch_size of them, with no timed wait.
C4_FullFlush ==
    \A k \in 1..Len(handed) :
        Len(handed[k].startq) >= max_batch_size
        => /\ Len(handed[k].batch) = max_batch_size
           /\ handed[k].batch = SubSeq(handed[k].startq, 1, max_batch_size)
           /\ handed[k].waits = 0

\* the queue the call after hand-off k starts on
NextStartq(k) == IF k < Len(handed) THEN handed[k + 1].startq ELSE cycle.startq

\* s is a prefix of t
IsPrefix(s, t) == Len(s) <= Len(t) /\ SubSeq(t, 1, Len(s)) = s

\* the full flush for the configurations with max_batch_size >= 1; the
\* items left over head the queue of the next call
FullFlushPositive ==
    max_batch_size >= 1 =>
        /\ C4_FullFlush
        /\ \A k \in 1..Len(handed) :
               Len(handed[k].startq) >= max_batch_size
               => IsPrefix(SubSeq(handed[k].startq, max_batch_size + 1,
                                  Len(handed[k].startq)),
                           NextStartq(k))

\* C5: deadline bound.  The deadline of a batch is the receive time of its
\* first item plus max_wait_time, while it fills and when it is handed off,
\* whatever arrives meanwhile; the clock never passes it while the batch
\* fills, and a batch that has not reached max_batch_size is handed off no
\* later than it.
C5_DeadlineBound ==
    /\ acc_pc \in {"drain", "wait"} =>
           /\ deadline = cycle.first_at + max_wait_time
           /\ now <= deadline
    /\ \A k \in 1..Len(handed) :
           /\ handed[k].deadline = handed[k].first_at + max_wait_time
           /\ Len(handed[k].batch) # max_batch_size
              => handed[k].at <= handed[k].first_at + max_wait_time

\* a batch took an item during its timed wait, waited again and was handed
\* off, not full, when the wait expired
C5_Witness ==
    \E k \in 1..Len(handed) :
        /\ handed[k].why = "timeout"
        /\ handed[k].waits >= 2
        /\ Len(handed[k].batch) >= 2
        /\ Len(handed[k].batch) # max_batch_size
        /\ handed[k].at = handed[k].first_at + max_wait_time

\* C6: no premature partial flush.  A batch of fewer than max_batch_size
\* items handed off before first-item time + max_wait_time was handed off
\* on observing the queue closed, and the queue was closed then.
C6_NoPrematurePartial ==
    \A k \in 1..Len(handed) :
        (/\ Len(handed[k].batch) < max_batch_size
         /\ handed[k].at < handed[k].first_at + max_wait_time)
        => handed[k].why = "closed" /\ ~handed[k].open

\* a single item on an open queue was handed off when its wait expired
C6_Witness ==
    \E k \in 1..Len(handed) :
        /\ Len(handed[k].batch) = 1
        /\ max_batch_size > 1
        /\ max_wait_time > 0
        /\ handed[k].open
        /\ handed[k].why = "timeout"
        /\ handed[k].at = handed[k].first_at + max_wait_time

\* C7: count mismatch.  When the downstream call succeeds with M results
\* for N # M items, every item of the batch was sent, and holds,
\* CountMismatch{expected: N, got: M} and nothing else.
C7_CountMismatch ==
    \A k \in Tasks :
        (Called(k) /\ tasks[k].result.ok
                   /\ Len(tasks[k].result.embs) # Len(BatchOf(k)))
        => \A p \in Positions(k) :
               Delivered(k, p, CountMismatch(Len(BatchOf(k)), Len(tasks[k].result.embs)))

\* one batch got no result at all, another got more results than items
C7_Witness ==
    /\ \E k \in Tasks : /\ Called(k) /\ tasks[k].result.ok
                        /\ Len(tasks[k].result.embs) = 0
    /\ \E k \in Tasks : /\ Called(k) /\ tasks[k].result.ok
                        /\ Len(tasks[k].result.embs) > Len(BatchOf(k))

\* C8: failure fan-out.  When the downstream call of a batch fails, the
\* failure is a Request or an Upstream failure and every item of the batch
\* was sent, and holds, that same failure and nothing else.
C8_FailureFanOut ==
    \A k \in Tasks :
        (Called(k) /\ ~tasks[k].result.ok)
        => /\ tasks[k].result.err.kind \in {"Request", "Upstream"}
           /\ \A p \in Positions(k) : Delivered(k, p, tasks[k].result.err)

\* a batch of two failed with a transport failure
C8_Witness ==
    \E k \in Tasks :
        /\ Called(k) /\ ~tasks[k].result.ok
        /\ Len(BatchOf(k)) = 2
        /\ tasks[k].result.err.kind = "Request"

\* C9: concurrency cap.  At most batch_concurrency dispatch tasks hold a
\* permit, and a task whose downstream call is out holds one.
C9_ConcurrencyCap ==
    /\ Cardinality(Holding) <= batch_concurrency
    /\ \A k \in Tasks : tasks[k].pc = "sent" => tasks[k].permit

\* every permit is held and a further batch waits for one
C9_Witness ==
    /\ batch_concurrency >= 1
    /\ Cardinality(Holding) = batch_concurrency
    /\ \E k \in Tasks : tasks[k].pc = "acquire"

\* C10: no permit leak.  The available permits and the permits held by
\* running dispatch tasks always add up to batch_concurrency; so with no
\* dispatch task holding one, batch_concurrency permits are available.
C10_NoPermitLeak ==
    /\ permits + Cardinality(Holding) = batch_concurrency
    /\ Holding = {} => permits = batch_concurrency

\* two dispatch tasks have ended, one on a downstream error and one on a
\* count mismatch, and none is running
C10_Witness ==
    /\ Holding = {}
    /\ \E k \in Tasks : Called(k) /\ ~tasks[k].result.ok
    /\ \E k \in Tasks : /\ Called(k) /\ tasks[k].result.ok
                        /\ Len(tasks[k].result.embs) # Len(BatchOf(k))

\* ------------------------------------------------------------- shutdown
\* batch k has fewer than max_batch_size items
Partial(k) == Len(handed[k].batch) < max_batch_size
\* item i is in a batch that was handed off
Placed(i) == \E k \in 1..Len(handed) : \E p \in 1..Len(handed[k].batch) : handed[k].batch[p] = i
\* item i entered the queue
Enqueued(i) == caller[i] \in {"waiting", "gone", "recv_error"}
\* the partial batches handed off after the queue was closed
PartialAfterClosure == {k \in 1..Len(handed) : ~handed[k].open /\ Partial(k)}

\* C11, as claimed: once the queue is closed at most one more partial batch
\* is handed off, it is handed off on observing closure, and when run has
\* ended every enqueued item is in a handed-off batch.
C11_ShutdownOnePartial ==
    /\ Cardinality(PartialAfterClosure) <= 1
    /\ \A k \in PartialAfterClosure : handed[k].why = "closed"
    /\ acc_pc = "stopped" => \A i \in Items : Enqueued(i) => Placed(i)

\* C11, amended: a batch returned on observing closure is handed off after
\* closure, leaves the queue empty and is the last batch; besides it, at
\* most one more partial batch is handed off after closure, the one whose
\* deadline flush was decided before closure was observed; once the queue
\* is closed the accumulator is never suspended; and when run has ended the
\* queue is closed and empty and every enqueued item is in exactly one
\* handed-off batch.
C11_Shutdown ==
    /\ \A k \in 1..Len(handed) :
           handed[k].why = "closed" => ~handed[k].open /\ k = Len(handed) /\ queue = <<>>
    /\ Cardinality({k \in PartialAfterClosure : handed[k].why # "closed"}) <= 1
    /\ Cardinality(PartialAfterClosure) <= 2
    /\ (~tx_open /\ acc_pc # "stopped") => ENABLED AccNext
    /\ acc_pc = "stopped" =>
           /\ ~tx_open /\ queue = <<>> /\ batch = <<>>
           /\ \A i \in Items : Enqueued(i) => Placed(i)
           /\ \A i \in Items :
                  Cardinality({kp \in (1..Len(handed)) \X (1..MaxItems) :
                                  /\ kp[2] <= Len(handed[kp[1]].batch)
                                  /\ handed[kp[1]].batch[kp[2]] = i}) <= 1

\* run has ended after two partial batches handed off after closure: one by
\* its deadline, the last one on observing closure
C11_Witness ==
    /\ acc_pc = "stopped"
    /\ \E k \in PartialAfterClosure : \E j \in PartialAfterClosure :
           k < j /\ handed[k].why = "deadline" /\ handed[j].why = "closed"

\* ---------------------------------------------------------- submission
\* item i is in the queue, in the batch being filled or in a handed-off batch
InPipeline(i) ==
    \/ \E k \in 1..Len(queue) : queue[k] = i
    \/ \E k \in 1..Len(batch) : batch[k] = i
    \/ Placed(i)

\* caller i's request(...) makes its send in this step
Submits(i) == caller[i] = "init" /\ caller'[i] # "init"

\* C12: submit on a closed queue.  A request submitted after the receiver is
\* gone returns BatcherUnavailable in that very step, leaving the queue and
\* every slot as they were; a request that returned BatcherUnavailable never
\* has an item in the queue or in a batch and is never sent an outcome.
C12_ClosedQueue ==
    /\ [](\A i \in Items : caller[i] = "unavailable" => ~InPipeline(i) /\ sent[i] = <<>>)
    /\ [][\A i \in Items : (Submits(i) /\ RxDropped) =>
              /\ caller'[i] = "unavailable"
              /\ UNCHANGED <<queue, batch, slot, sent, handed, tasks>>]_vars

\* the first request, which never finds the queue full, was refused
C12_Witness == caller[1] = "unavailable" /\ acc_pc = "aborted"

\* C13: backpressure.  The queue never holds more than queue_cap items; a
\* request submitted while the queue is full and its receiver alive becomes
\* suspended, with its item outside the queue; a suspended request leaves
\* its suspension only by enqueuing its item, at the tail of a queue that
\* has a free slot: it is neither dropped nor failed because of fullness.
C13_Backpressure ==
    /\ [](Len(queue) <= queue_cap)
    /\ [](\A i \in Items : caller[i] = "blocked" => ~InPipeline(i) /\ sent[i] = <<>>)
    /\ [][\A i \in Items :
              /\ (Submits(i) /\ ~RxDropped /\ Len(queue) >= queue_cap) =>
                     caller'[i] = "blocked" /\ queue' = queue
              /\ (caller[i] = "blocked" /\ caller'[i] # "blocked") =>
                     /\ caller'[i] = "waiting"
                     /\ Len(queue) < queue_cap
                     /\ queue' = Append(queue, i)]_vars

\* a caller is suspended on a full queue
C13_Witness ==
    \E i \in Items : caller[i] = "blocked" /\ Len(queue) = queue_cap /\ tx_open

\* C14, as claimed (in its weakest reading): a request that found the queue
\* full ends with BatcherUnavailable, at once or later; it is never enqueued.
C14_FullFails ==
    [][\A i \in Items :
          /\ (Submits(i) /\ Len(queue) >= queue_cap) =>
                 caller'[i] \in {"blocked", "unavailable"}
          /\ caller[i] = "blocked" => caller'[i] \in {"blocked", "unavailable"}]_vars

\* C14, amended: request reports BatcherUnavailable exactly when its send
\* finds the receiver gone, at submission or while suspended on a full
\* queue; a full queue whose receiver is alive never makes it fail.
C14_UnavailableOnlyWhenClosed ==
    [][\A i \in Items :
          /\ (caller[i] # "unavailable" /\ caller'[i] = "unavailable") =>
                 RxDropped /\ caller[i] \in {"init", "blocked"}
          /\ ((Submits(i) \/ (caller[i] = "blocked" /\ caller'[i] # "blocked")) /\ RxDropped) =>
                 caller'[i] = "unavailable"
          /\ (Submits(i) /\ ~RxDropped) => caller'[i] \in {"waiting", "blocked"}]_vars

\* with a queue of one, the first request was enqueued and lost with the
\* receiver, the second was refused
C14_Witness ==
    /\ queue_cap = 1 /\ acc_pc = "aborted"
    /\ caller[1] = "recv_error" /\ caller[2] = "unavailable"

\* ------------------------------------------------------------- liveness
\* C15, as claimed: under fair scheduling, with downstream calls that all
\* return, every request whose item was enqueued eventually has an outcome
\* in its slot, whatever the configuration.
C15_EventualResolution ==
    \A i \in Items : Enqueued(i) ~> (slot[i] # Empty)

\* the same with at least one permit configured
ResolutionWithPermits ==
    \A i \in Items : (batch_concurrency >= 1 /\ Enqueued(i)) ~> (slot[i] # Empty)

\* ---------------------------------------------------------- concurrency
\* the accumulator awaits the queue: no item, and senders still alive
AccIdle == acc_pc = "recv_first" /\ queue = <<>> /\ tx_open

\* dispatch tasks that have not ended
Pending == {k \in Tasks : tasks[k].pc # "done"}

\* C16: dispatch never blocks accumulation.  Whatever the dispatch tasks
\* are doing, the accumulator can make its next step unless run has ended or
\* it awaits the queue or its timer: it can receive a queued item, and it
\* can hand off the batch it has decided to return, also when every permit
\* is held and earlier dispatches are pending.
C16_DispatchNeverBlocks ==
    (acc_pc # "stopped" /\ ~AccIdle /\ ~AccSuspended) => ENABLED AccNext

\* the accumulator is about to hand off a batch while the only permit is
\* held by a pending call
C16_Witness ==
    /\ acc_pc = "flush"
    /\ batch_concurrency = 1 /\ permits = 0
    /\ \E k \in Pending : tasks[k].pc = "sent"

\* C17, as claimed: while assembling one batch the accumulator enters at
\* most one timed wait.
C17_SingleWait ==
    /\ cycle.waits <= 1
    /\ \A k \in 1..Len(handed) : handed[k].waits <= 1

\* C17, amended: while assembling one batch the accumulator suspends only
\* in timed waits, one after each fast drain that leaves the batch partial
\* before its deadline, hence at most one per item of the batch; each of
\* them expires at the batch's deadline, first-item time + max_wait_time;
\* the fast drain, the checks and the hand-off never suspend.
C17_BoundedWaits ==
    /\ \A k \in 1..Len(handed) : handed[k].waits <= Len(handed[k].batch)
    /\ acc_pc \in {"drain", "wait", "flush"} => cycle.waits <= Len(batch)
    /\ acc_pc = "wait" =>
           /\ wait_until = deadline
           /\ deadline = cycle.first_at + max_wait_time
           /\ now <= wait_until
    /\ acc_pc \in {"drain", "flush"} => ENABLED AccNext

\* a batch of two was returned at its deadline after two timed waits
C17_Witness ==
    \E k \in 1..Len(handed) :
        /\ handed[k].waits = 2 /\ Len(handed[k].batch) = 2
        /\ handed[k].at = handed[k].deadline /\ handed[k].at > handed[k].first_at

\* C18: permit source shut down.  A task whose acquire finds the semaphore
\* closed ends in that step on the shutdown path, with the permits as they
\* were; a task that ended on the shutdown path issued no downstream call,
\* holds no permit, and sent ServiceShutdown, and nothing else, to every
\* item of its batch.
C18_PermitSourceClosed ==
    /\ [](\A k \in Tasks : tasks[k].path = "shutdown" =>
              /\ tasks[k].pc = "done" /\ ~tasks[k].permit
              /\ tasks[k].inputs = <<>> /\ tasks[k].result = NoResult
              /\ \A p \in Positions(k) : Delivered(k, p, ServiceShutdown))
    /\ [][\A k \in Tasks :
              (tasks[k].pc = "acquire" /\ tasks'[k].pc # "acquire" /\ sem_closed) =>
                  /\ tasks'[k].pc = "done" /\ tasks'[k].path = "shutdown"
                  /\ permits' = permits]_vars

\* a batch of two ended on the shutdown path while a permit was free
C18_Witness ==
    \E k \in Tasks :
        /\ tasks[k].path = "shutdown" /\ Len(BatchOf(k)) = 2
        /\ permits = batch_concurrency /\ permits >= 1

\* ------------------------------------------------------------ isolation
\* the items of task k's batch
ItemsOf(k) == {BatchOf(k)[p] : p \in Positions(k)}

\* the outcome the downstream result of task k's call means for position p
OutcomeOf(k, p) ==
    LET r == tasks[k].result
    IN IF r.ok /\ Len(r.embs) = Len(BatchOf(k)) THEN OkEmb(r.embs[p])
       ELSE IF r.ok THEN CountMismatch(Len(BatchOf(k)), Len(r.embs))
       ELSE r.err

\* C19: failure isolation.  The outcome of an item is a function of the
\* downstream result of its own batch's call and of its position; the step
\* that ends a dispatch task, with any result, leaves unchanged the slot of
\* every item outside its batch, every other task, the queue and the batch
\* being filled; and a task that has not ended has sent nothing.
C19_FailureIsolation ==
    /\ [](\A k \in Tasks : Called(k) =>
              \A p \in Positions(k) : Delivered(k, p, OutcomeOf(k, p)))
    /\ [](\A k \in Pending : \A i \in ItemsOf(k) : sent[i] = <<>> /\ slot[i] = Empty)
    /\ [][\A k \in Tasks :
              (tasks[k].pc # "done" /\ tasks'[k].pc = "done") =>
                  /\ \A i \in Items \ ItemsOf(k) : slot'[i] = slot[i] /\ sent'[i] = sent[i]
                  /\ \A j \in Tasks \ {k} : tasks'[j] = tasks[j]
                  /\ UNCHANGED <<queue, batch, acc_pc, deadline, handed, caller, input>>]_vars

\* one batch failed and another got its embeddings
C19_Witness ==
    \E a \in Tasks : \E b \in Tasks :
        /\ a # b
        /\ Called(a) /\ ~tasks[a].result.ok
        /\ Called(b) /\ tasks[b].result.ok /\ Len(tasks[b].result.embs) = Len(BatchOf(b))
        /\ \A i \in ItemsOf(b) : slot[i].kind = "Ok"
        /\ \A i \in ItemsOf(a) : slot[i].kind \in {"Upstream", "Request"}

\* C20: abandoned waiter.  The item of a caller that gave up after enqueuing
\* stays where it was, in the queue, in the batch being filled or in its
\* handed-off batch; every downstream request carries the input of every
\* item of its batch, in batch order, abandoned or not; and when the call
\* has returned every item of the batch was sent the outcome of its own
\* position exactly once: it is in the slot of every caller still waiting,
\* and the failed write to an abandoned slot changed nothing.
C20_AbandonedWaiter ==
    /\ \A i \in Items : caller[i] = "gone" => InPipeline(i)
    /\ \A k \in Tasks : tasks[k].pc = "sent" \/ Called(k) =>
           tasks[k].inputs = [p \in Positions(k) |-> Payload(BatchOf(k)[p])]
    /\ \A k \in Tasks : Called(k) =>
           \A p \in Positions(k) :
               LET i == BatchOf(k)[p]
               IN /\ sent[i] = <<OutcomeOf(k, p)>>
                  /\ caller[i] = "gone" => slot[i] = Empty
                  /\ caller[i] # "gone" => slot[i] = OutcomeOf(k, p)

\* in a batch of two answered with two different embeddings, the first
\* caller had given up and the second holds the second embedding
C20_Witness ==
    \E k \in Tasks :
        /\ Called(k) /\ Len(BatchOf(k)) = 2
        /\ tasks[k].result.ok /\ Len(tasks[k].result.embs) = 2
        /\ tasks[k].result.embs[1] # tasks[k].result.embs[2]
        /\ caller[BatchOf(k)[1]] = "gone" /\ slot[BatchOf(k)[1]] = Empty
        /\ caller[BatchOf(k)[2]] = "waiting"
        /\ slot[BatchOf(k)[2]] = OkEmb(tasks[k].result.embs[2])

\* ------------------------------------------------------------ partition
\* the first n handed-off batches, concatenated in hand-off order
RECURSIVE Concatenated(_)
Concatenated(n) ==
    IF n = 0 THEN <<>> ELSE Concatenated(n - 1) \o handed[n].batch

\* the number of places item i is at: positions of the queue, of the batch
\* being filled and of the handed-off batches
Occurrences(i) ==
    Cardinality({k \in 1..Len(queue) : queue[k] = i})
    + Cardinality({k \in 1..Len(batch) : batch[k] = i})
    + Cardinality({kp \in (1..Len(handed)) \X (1..MaxItems) :
                      kp[2] <= Len(handed[kp[1]].batch) /\ handed[kp[1]].batch[kp[2]] = i})

\* C21: batches partition the queue in FIFO order.  The handed-off batches
\* concatenated in hand-off order, followed by the batch being filled, are
\* the items in the order they were taken from the queue; every handed-off
\* batch is non-empty; every enqueued item is at exactly one place, in the
\* queue, in the batch being filled or in one handed-off batch, and in a
\* handed-off batch once run has ended; a handed-off batch never changes.
C21_FifoPartition ==
    /\ [](Concatenated(Len(handed)) \o batch = dequeued)
    /\ [](\A k \in 1..Len(handed) : handed[k].batch # <<>>)
    /\ [](\A i \in Items : Occurrences(i) = IF Enqueued(i) THEN 1 ELSE 0)
    /\ [](acc_pc = "stopped" => \A i \in Items : Enqueued(i) => Placed(i))
    /\ [][\A k \in 1..Len(handed) : handed'[k] = handed[k]]_vars

\* every item was taken from the queue; two batches were handed off, the
\* first with all items but the last
C21_Witness ==
    /\ Len(dequeued) = MaxItems /\ batch = <<>>
    /\ Len(handed) = 2 /\ Len(handed[1].batch) = MaxItems - 1

\* ----------------------------------------------------------- saturation
\* the dispatch tasks whose batch waits for a permit
Waiting == {k \in Tasks : tasks[k].pc = "acquire"}

\* every permit is held
Saturated == Cardinality(Holding) = batch_concurrency

====
